---- MODULE Spec2Model ----
(***************************************************************************)
(* ringbahn: the TcpListener of src/net/listener.rs, its operation guard   *)
(* (active: Op), its peer-address scratch buffer (addr) and the futures     *)
(* Accept, Incoming and Close built on it, together with the Ring handle    *)
(* (submit/poll/cancel) and the kernel that completes the requests.         *)
(***************************************************************************)
EXTENDS Integers, Sequences, FiniteSets, TLC

\* Bounds of the model: requests ever submitted, scratch buffers ever boxed.
MaxReqs == 3
MaxBufs == 2
\* Bounds of the Read event: capacity of its Vec<u8>, its offset.
MaxCap == 3
MaxOffset == 1

\* OS errors a completion can carry, and what the kernel can leave in the
\* address storage.
Errnos == {"EBADF", "EINTR"}
Families == {"inet", "unix", "unspec"}

VARIABLES
    active,     \* TcpListener.active : Op
    addr,       \* TcpListener.addr : Option<Box<SockAddrStorage>>, 0 = None
    closes,     \* how many times the descriptor TcpListener.fd was closed
    life,       \* "live", "dropped" (destructor ran), "panicked"
    fut,        \* the future borrowing the listener: none/accept/incoming/close
    cur,        \* the request the Ring handle tracks, 0 = inert
    reqs,       \* the requests submitted to the kernel, in order
    heap,       \* the boxed scratch buffers, in allocation order
    calls,      \* the calls the last handler made on the ring, in order
    op,         \* the last handler that ran
    ret,        \* what it returned
    rd          \* a Read event (src/event/read.rs), its buffer and its token

vars == <<active, addr, closes, life, fut, cur, reqs, heap, calls, op, ret, rd>>

-----------------------------------------------------------------------------
\* Cancellation tokens (crate::Cancellation)
NoTok == [variant |-> "none", ptr |-> 0]
\* Cancellation::null()
NullTok == [variant |-> "null", ptr |-> 0]
\* Cancellation::new(ptr, 0, callback), callback = drop(Box::from_raw(ptr))
CallbackTok(p) == [variant |-> "callback", ptr |-> p]

\* one call on the ring: cancel(tok), or poll of a request of some kind, which
\* is a "submit" when the poll enqueues the request
Call(c, k, tok) == [call |-> c, kind |-> k, tok |-> tok]

\* Poll results
Ret(t, v) == [t |-> t, v |-> v]
NoRet == Ret("None", "")
Pending == Ret("Pending", "")
Panic == Ret("Panic", "")

\* deallocation of the box b
Free(h, b) == [h EXCEPT ![b].st = "freed", ![b].frees = @ + 1]

\* the reclaim procedure of a token
Reclaim(h, tok) == IF tok.variant = "callback" THEN Free(h, tok.ptr) ELSE h

\* The listener, its ring and the heap as one value the handlers transform.
World == [active |-> active, addr |-> addr, closes |-> closes, cur |-> cur,
          reqs |-> reqs, heap |-> heap, calls |-> <<>>, panicked |-> FALSE]

-----------------------------------------------------------------------------
\* Ring::cancel: hand a token to the ring.  With a request in flight the
\* token waits for the request to finish; with a request that has finished,
\* or none, the token is reclaimed at once.  The ring is inert afterwards.
ring_cancel(w, tok) ==
    LET logged == [w EXCEPT !.calls = Append(@, Call("cancel", "", tok))] IN
    IF w.cur # 0 /\ w.reqs[w.cur].st = "pending"
    THEN [logged EXCEPT !.reqs[w.cur].tok = tok, !.cur = 0]
    ELSE [logged EXCEPT !.heap = Reclaim(w.heap, tok), !.cur = 0]

\* Ring::poll: submit the request when the ring is inert, then report the
\* state of the tracked request; a finished request is handed out once.
ring_poll(w, kind, buf) ==
    IF w.cur = 0
    THEN [w |-> [w EXCEPT !.reqs = Append(@, [kind |-> kind, buf |-> buf,
                                              st |-> "pending", res |-> "",
                                              tok |-> NoTok]),
                          !.cur = Len(w.reqs) + 1,
                          !.calls = Append(@, Call("submit", kind, NoTok))],
          res |-> Pending]
    ELSE IF w.reqs[w.cur].st = "done"
    THEN [w |-> [w EXCEPT !.cur = 0, !.calls = Append(@, Call("poll", kind, NoTok))],
          res |-> IF w.reqs[w.cur].res = "Ok"
                  THEN Ret("ReadyOk", "")
                  ELSE Ret("ReadyErr", w.reqs[w.cur].res)]
    ELSE [w |-> [w EXCEPT !.calls = Append(@, Call("poll", kind, NoTok))],
          res |-> Pending]

-----------------------------------------------------------------------------
\* cancel, forgetting to hand the token to the ring
cancel_unregistered(w) ==
    IF w.active = "Nothing" THEN w
    ELSE IF w.active = "Accept" /\ w.addr = 0
    THEN [w EXCEPT !.panicked = TRUE]
    ELSE [w EXCEPT !.active = "Nothing"]

\* TcpListener::cancel
cancel(w) ==
    IF w.active = "Nothing" THEN w
    ELSE IF w.active = "Accept" /\ w.addr = 0
    THEN [w EXCEPT !.panicked = TRUE]                  \* addr.as_mut().unwrap()
    ELSE LET cancellation == IF w.active = "Accept"
                             THEN CallbackTok(w.addr)
                             ELSE NullTok
         IN ring_cancel([w EXCEPT !.active = "Nothing"], cancellation)

\* guard_op, adopting the new kind without cancelling the previous one
guard_op_nocancel(w, k) == [w EXCEPT !.active = k]

\* guard_op, cancelling whenever an operation is active
guard_op_eager(w, k) ==
    LET c == IF w.active # "Nothing" THEN cancel(w) ELSE w IN
    IF c.panicked THEN c ELSE [c EXCEPT !.active = k]

\* TcpListener::guard_op
guard_op(w, k) ==
    LET c == IF w.active # "Nothing" /\ w.active # k THEN cancel(w) ELSE w IN
    IF c.panicked THEN c ELSE [c EXCEPT !.active = k]

\* drop_addr, leaving the box in place
drop_addr_kept(w) == w

\* TcpListener::drop_addr: addr.take() drops the box
drop_addr(w) ==
    IF w.addr = 0 THEN w
    ELSE [w EXCEPT !.heap = Free(w.heap, w.addr), !.addr = 0]

\* TcpListener::split: box a new storage when there is none
split(w) ==
    IF w.addr = 0
    THEN [w EXCEPT !.heap = Append(@, [st |-> "live", fam |-> "uninit",
                                       frees |-> 0]),
                   !.addr = Len(w.heap) + 1]
    ELSE w

\* SockAddrStorage::as_socket_addr on the storage b; a storage that was
\* freed, or never written, reads as anything (dangling reads as junk).
as_socket_addr(h, b, junk) ==
    IF h[b].st = "live" /\ h[b].fam # "uninit" THEN h[b].fam ELSE junk

\* poll_accept, releasing the scratch buffer before looking at the result
poll_accept_release_first(w, junk) ==
    LET g == guard_op(w, "Accept") IN
    IF g.panicked THEN [w |-> g, res |-> Panic]
    ELSE
    LET s == split(g)
        q == ring_poll(s, "Accept", s.addr)
        result == as_socket_addr(q.w.heap, q.w.addr, junk)
        p == [q EXCEPT !.w = drop_addr(q.w)]
    IN  IF p.res.t # "ReadyOk" THEN p
        ELSE CASE result = "inet"   -> [w |-> p.w, res |-> Ret("ReadyOk", "")]
               [] result = "unspec" -> [w |-> p.w, res |-> Ret("ReadyErr", "EAFNOSUPPORT")]
               [] OTHER             -> [w |-> [p.w EXCEPT !.panicked = TRUE],
                                        res |-> Panic]

\* poll_accept, reporting an address of another family as an error
poll_accept_recover(w, junk) ==
    LET g == guard_op(w, "Accept") IN
    IF g.panicked THEN [w |-> g, res |-> Panic]
    ELSE
    LET s == split(g)
        p == ring_poll(s, "Accept", s.addr)
    IN  IF p.res.t # "ReadyOk" THEN p
        ELSE LET result == as_socket_addr(p.w.heap, p.w.addr, junk)
                 d == drop_addr(p.w)
             IN  CASE result = "inet" -> [w |-> d, res |-> Ret("ReadyOk", "")]
                   [] OTHER           -> [w |-> d, res |-> Ret("ReadyErr", "EAFNOSUPPORT")]

\* poll_accept, retrying an accept that the ring reported as failed
poll_accept_retry(w, junk) ==
    LET g == guard_op(w, "Accept") IN
    IF g.panicked THEN [w |-> g, res |-> Panic]
    ELSE
    LET s == split(g)
        p == ring_poll(s, "Accept", s.addr)
    IN  IF p.res.t = "ReadyErr" THEN ring_poll(p.w, "Accept", p.w.addr)
        ELSE IF p.res.t # "ReadyOk" THEN p
        ELSE LET result == as_socket_addr(p.w.heap, p.w.addr, junk)
                 d == drop_addr(p.w)
             IN  CASE result = "inet"   -> [w |-> d, res |-> Ret("ReadyOk", "")]
                   [] result = "unspec" -> [w |-> d, res |-> Ret("ReadyErr", "EAFNOSUPPORT")]
                   [] OTHER             -> [w |-> [d EXCEPT !.panicked = TRUE],
                                            res |-> Panic]

\* TcpListener::poll_accept
poll_accept(w, junk) ==
    LET g == guard_op(w, "Accept") IN
    IF g.panicked THEN [w |-> g, res |-> Panic]
    ELSE
    LET s == split(g)
        p == ring_poll(s, "Accept", s.addr)
    IN  IF p.res.t # "ReadyOk" THEN p                  \* ready!(..)?
        ELSE LET result == as_socket_addr(p.w.heap, p.w.addr, junk)
                 d == drop_addr(p.w)
             IN  CASE result = "inet"   -> [w |-> d, res |-> Ret("ReadyOk", "")]
                   [] result = "unspec" -> [w |-> d, res |-> Ret("ReadyErr", "EAFNOSUPPORT")]
                   [] OTHER             -> [w |-> [d EXCEPT !.panicked = TRUE],
                                            res |-> Panic]

\* Close::poll
close_poll(w) ==
    LET g == guard_op(w, "Close") IN
    IF g.panicked THEN [w |-> g, res |-> Panic]
    ELSE ring_poll(g, "Close", 0)

\* poll_next, ending the stream at the first error
poll_next_ends(w, junk) ==
    LET next == poll_accept(w, junk) IN
    CASE next.res.t = "ReadyOk"  -> [next EXCEPT !.res.t = "ReadySomeOk"]
      [] next.res.t = "ReadyErr" -> [next EXCEPT !.res = Ret("ReadyNone", "")]
      [] OTHER                   -> next

\* Incoming::poll_next
poll_next(w, junk) ==
    LET next == poll_accept(w, junk) IN
    CASE next.res.t = "ReadyOk"  -> [next EXCEPT !.res.t = "ReadySomeOk"]
      [] next.res.t = "ReadyErr" -> [next EXCEPT !.res.t = "ReadySomeErr"]
      [] OTHER                   -> next

\* the destructor, cancelling whatever the active kind is
drop_always_cancel(w) == drop_addr(cancel(w))

\* the destructor, closing the descriptor whatever the active kind is
drop_always_close(w) ==
    LET d == IF w.active = "Nothing" THEN w ELSE cancel(w)
    IN  drop_addr([d EXCEPT !.closes = @ + 1])

\* impl Drop for TcpListener, followed by the drop of its fields: the
\* Option<Box<SockAddrStorage>> in addr is deallocated when it is Some.
drop(w) ==
    LET d == IF w.active = "Nothing"
             THEN [w EXCEPT !.closes = @ + 1]          \* libc::close(self.fd)
             ELSE cancel(w)
    IN  drop_addr(d)

-----------------------------------------------------------------------------
\* Cancellation::buffer(ptr, cap): reclaiming it deallocates cap bytes at ptr
BufferTok(p, n) == [variant |-> "buffer", ptr |-> p, size |-> n]

\* no Read event exists
NoRead == [stage |-> "none", buf |-> [ptr |-> 0, len |-> 0, cap |-> 0],
           offset |-> 0, sqe |-> <<>>, tok |-> BufferTok(0, 0), mem |-> "none"]

\* Read::new(io, buf, offset); buf is a Vec<u8>: pointer, length, capacity
Read_new(buf, offset) ==
    [stage |-> "new", buf |-> buf, offset |-> offset, sqe |-> <<>>,
     tok |-> BufferTok(0, 0), mem |-> "allocated"]

\* Read::prepare: prep_read(fd, &mut self.buf[..], self.offset)
Read_prepare(r) ==
    [r EXCEPT !.stage = "prepared",
              !.sqe = <<[ptr |-> r.buf.ptr, len |-> r.buf.len, offset |-> r.offset]>>]

\* Read::cancel, sizing the token by the length of the buffer
Read_cancel_len(r) ==
    [r EXCEPT !.stage = "cancelled", !.tok = BufferTok(r.buf.ptr, r.buf.len)]

\* Read::cancel: the Vec is taken out under ManuallyDrop (not deallocated)
\* and the token is Cancellation::buffer(buf.as_mut_ptr(), buf.capacity())
Read_cancel(r) ==
    LET cap == r.buf.cap IN
    [r EXCEPT !.stage = "cancelled", !.tok = BufferTok(r.buf.ptr, cap)]

-----------------------------------------------------------------------------
Init ==
    /\ active = "Nothing"
    /\ addr = 0
    /\ closes = 0
    /\ life = "live"
    /\ fut = "none"
    /\ cur = 0
    /\ reqs = <<>>
    /\ heap = <<>>
    /\ calls = <<>>
    /\ op = "bind"
    /\ ret = NoRet
    /\ rd = NoRead

\* the handler left the world w and returned r
Commit(w, r, name) ==
    /\ Len(w.reqs) <= MaxReqs
    /\ Len(w.heap) <= MaxBufs
    /\ active' = w.active
    /\ addr' = w.addr
    /\ closes' = w.closes
    /\ cur' = w.cur
    /\ reqs' = w.reqs
    /\ heap' = w.heap
    /\ calls' = w.calls
    /\ life' = IF w.panicked THEN "panicked" ELSE life
    /\ op' = name
    /\ ret' = r
    /\ rd' = rd

\* TcpListener::accept / incoming / close: a future borrows the listener
Make(f) ==
    /\ life = "live"
    /\ fut = "none"
    /\ fut' = f
    /\ op' = f
    /\ ret' = NoRet
    /\ calls' = <<>>
    /\ UNCHANGED <<active, addr, closes, life, cur, reqs, heap, rd>>

MakeAccept == Make("accept")
MakeIncoming == Make("incoming")
MakeClose == Make("close")

\* the future is dropped; none of the futures has a destructor
DropFuture ==
    /\ life = "live"
    /\ fut # "none"
    /\ fut' = "none"
    /\ op' = "drop_future"
    /\ ret' = NoRet
    /\ calls' = <<>>
    /\ UNCHANGED <<active, addr, closes, life, cur, reqs, heap, rd>>

\* Accept::poll
PollAccept ==
    /\ life = "live"
    /\ fut = "accept"
    /\ \E junk \in Families :
          LET r == poll_accept(World, junk) IN Commit(r.w, r.res, "Accept::poll")
    /\ UNCHANGED fut

\* Incoming::poll_next
PollNext ==
    /\ life = "live"
    /\ fut = "incoming"
    /\ \E junk \in Families :
          LET r == poll_next(World, junk) IN Commit(r.w, r.res, "Incoming::poll_next")
    /\ UNCHANGED fut

\* Close::poll
PollClose ==
    /\ life = "live"
    /\ fut = "close"
    /\ LET r == close_poll(World) IN Commit(r.w, r.res, "Close::poll")
    /\ UNCHANGED fut

\* the listener goes out of scope; no future borrows it
DropListener ==
    /\ life = "live"
    /\ fut = "none"
    /\ LET w == drop(World) IN
          /\ active' = w.active
          /\ addr' = w.addr
          /\ closes' = w.closes
          /\ cur' = w.cur
          /\ reqs' = w.reqs
          /\ heap' = w.heap
          /\ calls' = w.calls
          /\ life' = IF w.panicked THEN "panicked" ELSE "dropped"
    /\ op' = "drop"
    /\ ret' = NoRet
    /\ UNCHANGED <<fut, rd>>

\* The kernel finishes request i with outcome o: "Ok", an errno, or
\* "ECANCELED" for a request that was cancelled.  An accept that succeeds
\* writes the peer address into its storage; a close that succeeds closes the
\* descriptor.  A token waiting on the request is reclaimed now.
Outcomes(i) ==
    (IF closes = 0 THEN {"Ok"} ELSE {}) \cup Errnos
    \cup (IF reqs[i].tok # NoTok THEN {"ECANCELED"} ELSE {})

KernelComplete ==
    /\ life # "panicked"
    /\ \E i \in 1..Len(reqs) : \E o \in Outcomes(i) : \E f \in Families :
          /\ reqs[i].st = "pending"
          /\ reqs' = [reqs EXCEPT ![i].st = "done", ![i].res = o]
          /\ closes' = IF reqs[i].kind = "Close" /\ o = "Ok" THEN closes + 1 ELSE closes
          /\ LET written == IF reqs[i].kind = "Accept" /\ o = "Ok"
                                 /\ heap[reqs[i].buf].st = "live"
                            THEN [heap EXCEPT ![reqs[i].buf].fam = f]
                            ELSE heap
             IN heap' = Reclaim(written, reqs[i].tok)
    /\ op' = "complete"
    /\ ret' = NoRet
    /\ calls' = <<>>
    /\ UNCHANGED <<active, addr, life, fut, cur, rd>>

Next ==
    \/ MakeAccept
    \/ MakeIncoming
    \/ MakeClose
    \/ DropFuture
    \/ PollAccept
    \/ PollNext
    \/ PollClose
    \/ DropListener
    \/ KernelComplete

Spec == Init /\ [][Next]_vars

\* The Close future is polled until it is ready: only a future on accept is
\* dropped before it has resolved.  The executor polls a future whose request
\* has finished, and the kernel finishes every request.
AbandonAccept == fut \in {"accept", "incoming"} /\ DropFuture

NextLive ==
    \/ MakeAccept
    \/ MakeIncoming
    \/ MakeClose
    \/ AbandonAccept
    \/ PollAccept
    \/ PollNext
    \/ PollClose
    \/ DropListener
    \/ KernelComplete

LiveSpec == Init /\ [][NextLive]_vars /\ WF_vars(PollClose) /\ WF_vars(KernelComplete)

-----------------------------------------------------------------------------
\* A Read event on its own: any buffer with length <= capacity, any offset.
ReadBufs == {[ptr |-> p, len |-> l, cap |-> c] :
                p \in 1..MaxBufs, l \in 0..MaxCap, c \in 0..MaxCap}

ReadInit ==
    /\ active = "Nothing"
    /\ addr = 0
    /\ closes = 0
    /\ life = "live"
    /\ fut = "none"
    /\ cur = 0
    /\ reqs = <<>>
    /\ heap = <<>>
    /\ calls = <<>>
    /\ op = "Read::new"
    /\ ret = NoRet
    /\ \E b \in ReadBufs : \E o \in 0..MaxOffset :
          /\ b.len <= b.cap
          /\ rd = Read_new(b, o)

ReadStep(name, r) ==
    /\ rd' = r
    /\ op' = name
    /\ UNCHANGED <<active, addr, closes, life, fut, cur, reqs, heap, calls, ret>>

\* the event is prepared once, when it is submitted
ReadPrepare ==
    /\ rd.stage = "new"
    /\ ReadStep("Read::prepare", Read_prepare(rd))

\* the event is abandoned, before or after it was submitted
ReadCancel ==
    /\ rd.stage \in {"new", "prepared"}
    /\ ReadStep("Read::cancel", Read_cancel(rd))

\* the ring reclaims the buffer token once the kernel is done with the read
ReadReclaim ==
    /\ rd.stage = "cancelled"
    /\ ReadStep("reclaim", [rd EXCEPT !.stage = "reclaimed", !.mem = "freed"])

ReadNext ==
    \/ ReadPrepare
    \/ ReadCancel
    \/ ReadReclaim

ReadSpec == ReadInit /\ [][ReadNext]_vars

-----------------------------------------------------------------------------
\* Vocabulary of the properties
AcceptPolls == {"Accept::poll", "Incoming::poll_next"}
Polls == AcceptPolls \cup {"Close::poll"}
KindOf(name) == IF name = "Close::poll" THEN "Close" ELSE "Accept"
ReadyTags == {"ReadyOk", "ReadyErr", "ReadySomeOk", "ReadySomeErr"}
Reqs == 1..Len(reqs)
Bufs == 1..Len(heap)
\* the kernel holds no unfinished request
Quiescent == \A i \in Reqs : reqs[i].st = "done"
\* the accept request the ring tracks is still pending in the kernel
AcceptPending == cur # 0 /\ reqs[cur].kind = "Accept" /\ reqs[cur].st = "pending"

\* C1: No premature reclamation: the scratch buffer targeted by an accept
\* request that was abandoned while pending (a cancellation was registered
\* for it by a close poll or by the destructor) is not deallocated as long
\* as the kernel has not finished that request.
C1_NoPrematureReclamation ==
    \A i \in Reqs :
        (reqs[i].kind = "Accept" /\ reqs[i].st = "pending" /\ reqs[i].tok # NoTok)
            => heap[reqs[i].buf].st = "live"

\* C2: Cancel before switch: a poll of kind k' while the active kind is k,
\* k # Nothing and k # k', registers the cancellation token of k with the
\* ring before it submits the request of kind k'; the request the ring
\* tracks is always of the active kind and every other unfinished request
\* has a cancellation registered.
C2_CancelBeforeSwitch ==
    /\ [](cur # 0 => reqs[cur].kind = active)
    /\ [](\A i \in Reqs : (reqs[i].st = "pending" /\ i # cur) => reqs[i].tok # NoTok)
    /\ [][(op' \in Polls /\ active \notin {"Nothing", KindOf(op')})
            => \/ /\ life' = "panicked"      \* cancel failed: nothing is submitted
                  /\ calls' = <<>>
                  /\ reqs' = reqs
               \/ /\ life' = "live"
                  /\ Len(calls') = 2
                  /\ calls'[1].call = "cancel"
                  /\ calls'[1].tok.variant = (IF active = "Accept" THEN "callback" ELSE "null")
                  /\ calls'[2] = Call("submit", KindOf(op'), NoTok)
                  /\ reqs'[Len(reqs')].kind = KindOf(op')
                  /\ active' = KindOf(op')]_vars

\* C2 witness: a close poll switched away from a pending accept
C2_Witness ==
    /\ op = "Close::poll"
    /\ Len(calls) = 2
    /\ calls[1] = Call("cancel", "", CallbackTok(addr))
    /\ calls[2] = Call("submit", "Close", NoTok)
    /\ \E i \in Reqs : reqs[i].kind = "Accept" /\ reqs[i].st = "pending"

\* C3: Exactly-once reclamation: every scratch buffer that was allocated is
\* released at most once at any time, and exactly once when the listener has
\* been destroyed and the kernel has finished every request.
C3_ExactlyOnce ==
    \A b \in Bufs :
        /\ heap[b].frees <= 1
        /\ (life = "dropped" /\ Quiescent) => heap[b].frees = 1

\* C4: Ownership transfer on cancellation: once a callback token for a
\* scratch buffer is registered with the ring, the listener's addr does not
\* refer to that buffer and no later accept request targets it.
C4_OwnershipTransfer ==
    \A i \in Reqs :
        reqs[i].tok.variant = "callback"
            => /\ addr # reqs[i].tok.ptr
               /\ \A j \in Reqs : (j > i /\ reqs[j].kind = "Accept")
                                      => reqs[j].buf # reqs[i].tok.ptr

\* C5: Completion returns the resource to Idle: after a poll that returned
\* Ready from a completion of the active kind's request, active is Nothing.
C5_CompletionReturnsIdle ==
    (op \in Polls /\ ret.t \in ReadyTags) => active = "Nothing"

\* C6: Destruction while active releases the descriptor: once the listener
\* has been destroyed and the kernel has finished every request, the
\* descriptor has been closed.
C6_DescriptorReleased ==
    (life = "dropped" /\ Quiescent) => closes >= 1

\* C7: Destruction while Idle is synchronous: the destructor of a listener
\* whose active kind is Nothing closes the descriptor itself and registers
\* no cancellation token with the ring.
C7_IdleDropSynchronous ==
    [][(op' = "drop" /\ active = "Nothing")
        => /\ closes' = closes + 1
           /\ calls' = <<>>
           /\ reqs' = reqs
           /\ life' = "dropped"]_vars

\* C7 witness: the listener was destroyed while idle
C7_Witness ==
    op = "drop" /\ life = "dropped" /\ calls = <<>> /\ closes = 1 /\ reqs = <<>>

\* C8: Switch mid-flight still completes: a close poll that finds an accept
\* pending registers the callback token for the accept's scratch buffer
\* before it submits the close request and does not panic; and when the
\* Close future is polled until ready and the kernel finishes the close
\* request, Close::poll returns Ready with the kernel's result of that close
\* request: Ok(()) when the close succeeded.
C8_SwitchPolled ==
    /\ op = "Close::poll"
    /\ ret = Pending
    /\ Len(calls) = 2
    /\ calls[1].call = "cancel"
    /\ calls[1].tok.variant = "callback"
    /\ calls[2] = Call("submit", "Close", NoTok)

C8_CloseReady ==
    /\ op = "Close::poll"
    /\ Len(reqs) > 0
    /\ reqs[Len(reqs)].kind = "Close"
    /\ reqs[Len(reqs)].st = "done"
    /\ ret = (IF reqs[Len(reqs)].res = "Ok"
              THEN Ret("ReadyOk", "")
              ELSE Ret("ReadyErr", reqs[Len(reqs)].res))

C8_SwitchMidFlight ==
    /\ [][(op' = "Close::poll" /\ AcceptPending)
            => /\ life' = "live"
               /\ calls' = <<Call("cancel", "", CallbackTok(addr)),
                             Call("submit", "Close", NoTok)>>
               /\ reqs'[cur].tok = CallbackTok(addr)
               /\ reqs'[Len(reqs')].kind = "Close"
               /\ ret' = Pending]_vars
    /\ (C8_SwitchPolled ~> C8_CloseReady)

\* C8 witness: the close submitted by a switch away from a pending accept
\* has succeeded and the Close future returned Ready(Ok(()))
C8_Witness ==
    /\ op = "Close::poll"
    /\ ret = Ret("ReadyOk", "")
    /\ Len(reqs) = 2
    /\ reqs[1].kind = "Accept"
    /\ reqs[1].tok.variant = "callback"
    /\ reqs[2].kind = "Close"
    /\ reqs[2].res = "Ok"

\* C9 as stated: accepts that complete successfully one after the other
\* all target the same scratch buffer.
C9_SameBufferReused ==
    \A i, j \in Reqs :
        (/\ \A k \in Reqs : reqs[k].kind = "Accept"
         /\ reqs[i].res = "Ok"
         /\ reqs[j].res = "Ok")
            => reqs[i].buf = reqs[j].buf

\* C9 amended: an accept poll that returns a connection has released the
\* scratch buffer (addr is None afterwards), and an accept poll that submits
\* a request targets the buffer addr holds, boxing a new one only when addr
\* is None; so the buffer is reused across polls only while addr holds it.
C9_ReleasedOnSuccess ==
    /\ [][(op' \in AcceptPolls /\ ret'.t \in {"ReadyOk", "ReadySomeOk"})
            => /\ addr # 0
               /\ addr' = 0
               /\ heap'[addr].st = "freed"]_vars
    /\ [][(op' \in AcceptPolls /\ Len(reqs') > Len(reqs))
            => /\ reqs'[Len(reqs')].buf = addr'
               /\ IF addr = 0
                  THEN Len(heap') = Len(heap) + 1 /\ addr' = Len(heap')
                  ELSE heap' = heap /\ addr' = addr]_vars

\* C9 witness: a second accept was submitted after the first returned a
\* connection, and it targets a new buffer
C9_Witness ==
    /\ Len(reqs) >= 2
    /\ reqs[1].kind = "Accept" /\ reqs[1].res = "Ok" /\ reqs[1].tok = NoTok
    /\ reqs[2].kind = "Accept"
    /\ reqs[2].buf # reqs[1].buf
    /\ heap[reqs[1].buf].st = "freed"

\* C10: Cancellation payload per kind: when cancel runs (a poll of the other
\* kind, or the destructor) with active = Accept it registers a callback
\* token whose pointer is the current scratch buffer; with active = Close it
\* registers the null token.
C10_PayloadPerKind ==
    [][((op' \in Polls /\ active \notin {"Nothing", KindOf(op')})
         \/ (op' = "drop" /\ active # "Nothing"))
        => /\ Len(calls') >= 1
           /\ calls'[1] = Call("cancel", "",
                               IF active = "Accept" THEN CallbackTok(addr) ELSE NullTok)
           /\ active = "Accept" => addr # 0]_vars

\* C11: Capacity fidelity: Read::cancel returns a buffer token whose pointer
\* is the buffer's backing storage and whose size is the buffer's capacity,
\* not its length, and it leaves the buffer allocated.
C11_CapacityFidelity ==
    [][op' = "Read::cancel"
        => /\ rd'.tok = [variant |-> "buffer", ptr |-> rd.buf.ptr, size |-> rd.buf.cap]
           /\ rd'.mem = "allocated"
           /\ rd.mem = "allocated"]_vars

\* C11 witness: a prepared read whose buffer is shorter than its capacity
\* was cancelled
C11_Witness ==
    /\ op = "Read::cancel"
    /\ rd.stage = "cancelled"
    /\ rd.sqe # <<>>
    /\ rd.buf.len < rd.buf.cap
    /\ rd.tok.size = rd.buf.cap

\* the ring holds a finished request of the polled kind whose result is an
\* error: the next poll of that kind is told Ready(Err(e))
RingHasError(k) ==
    /\ active = k
    /\ cur # 0
    /\ reqs[cur].st = "done"
    /\ reqs[cur].res # "Ok"

\* C12: Completion-time errors are propagated: a poll to which the ring
\* reports Ready(Err(e)) returns Ready(Err(e)) with the same e (Incoming:
\* Ready(Some(Err(e)))) and submits no request.
C12_ErrorsPropagated ==
    [][(op' \in Polls /\ RingHasError(KindOf(op')))
        => /\ ret' = Ret(IF op' = "Incoming::poll_next" THEN "ReadySomeErr" ELSE "ReadyErr",
                         reqs[cur].res)
           /\ reqs' = reqs
           /\ cur' = 0
           /\ life' = "live"]_vars

\* C12 witness: a poll has returned the error the kernel reported for its
\* request
C12_Witness ==
    /\ op \in Polls
    /\ ret.t \in {"ReadyErr", "ReadySomeErr"}
    /\ ret.v \in Errnos
    /\ \E i \in Reqs : reqs[i].kind = KindOf(op) /\ reqs[i].res = ret.v /\ reqs[i].tok = NoTok

\* C13: The cancel path never hits a missing scratch buffer: whenever cancel
\* is invoked with active = Accept (by a close poll through guard_op, or by
\* the destructor), addr holds a scratch buffer and the call does not panic.
C13_CancelFindsBuffer ==
    [][(op' \in {"Close::poll", "drop"} /\ active = "Accept")
        => (addr # 0 /\ life' # "panicked")]_vars

\* C14: Repeated polls of the same kind are a no-op on the guard: a poll of
\* the kind that is already active, with its request still pending, makes no
\* cancel call on the ring, submits nothing, and leaves active, addr and the
\* scratch buffers as they were.
C14_RepeatedPollNoOp ==
    [][(op' \in Polls /\ active = KindOf(op') /\ cur # 0 /\ reqs[cur].st = "pending")
        => /\ calls' = <<Call("poll", KindOf(op'), NoTok)>>
           /\ active' = active
           /\ addr' = addr
           /\ heap' = heap
           /\ reqs' = reqs
           /\ cur' = cur
           /\ ret' = Pending]_vars

\* C14 witness: a pending accept holding a scratch buffer was polled again
C14_Witness ==
    /\ op \in AcceptPolls
    /\ ret = Pending
    /\ calls = <<Call("poll", "Accept", NoTok)>>
    /\ addr # 0
    /\ AcceptPending

\* C15: Accept completion releases the scratch buffer only after completion:
\* an accept poll that returns a connection was told by the ring that the
\* accept finished successfully, decoded an Inet address from the buffer and
\* has released the buffer (addr is None afterwards); an accept poll that
\* returns Pending releases nothing and leaves the buffer in addr.
C15_ReleaseAfterCompletion ==
    [][op' \in AcceptPolls
        => /\ (ret'.t \in {"ReadyOk", "ReadySomeOk"})
                => /\ cur # 0 /\ reqs[cur].st = "done" /\ reqs[cur].res = "Ok"
                   /\ reqs[cur].buf = addr
                   /\ (heap[addr].st = "live" => heap[addr].fam = "inet")
                   /\ addr' = 0
                   /\ heap'[addr].frees = heap[addr].frees + 1
           /\ (ret' = Pending)
                => /\ addr' # 0
                   /\ reqs'[cur'].st = "pending" /\ reqs'[cur'].buf = addr'
                   /\ \A b \in Bufs : heap'[b] = heap[b]]_vars

\* C15 witness: an accept poll returned a connection and addr is None
C15_Witness ==
    /\ op \in AcceptPolls
    /\ ret.t \in {"ReadyOk", "ReadySomeOk"}
    /\ addr = 0
    /\ \E b \in Bufs : heap[b].st = "freed" /\ heap[b].fam = "inet"

\* C16: Descriptor closed at most once: the kernel's successful close
\* requests and the destructor's libc::close together close the listener's
\* descriptor at most once.
C16_ClosedAtMostOnce == closes <= 1

\* C16 witness: the listener was destroyed after a Close future had
\* completed, and the descriptor was closed once
C16_Witness ==
    /\ life = "dropped"
    /\ closes = 1
    /\ \E i \in Reqs : reqs[i].kind = "Close" /\ reqs[i].res = "Ok" /\ reqs[i].tok = NoTok

\* C17: Incoming never ends by itself: Incoming::poll_next returns Pending
\* exactly when the accept is pending after the poll, and otherwise (unless
\* the accept poll panicked) Ready(Some(item)), where item is the result of
\* the one finished accept request the poll took from the ring; it never
\* returns Ready(None).
C17_IncomingNeverEnds ==
    [][op' = "Incoming::poll_next"
        => /\ ret'.t \in {"Pending", "ReadySomeOk", "ReadySomeErr", "Panic"}
           /\ (ret' = Pending) <=> (cur' # 0 /\ reqs'[cur'].st = "pending")
           /\ (ret'.t # "Pending")
                => /\ cur # 0 /\ cur' = 0 /\ reqs' = reqs
                   /\ reqs[cur].kind = "Accept" /\ reqs[cur].st = "done"
                   /\ (reqs[cur].res # "Ok") => ret' = Ret("ReadySomeErr", reqs[cur].res)
                   /\ (reqs[cur].res = "Ok")
                         => ret' \in {Ret("ReadySomeOk", ""),
                                      Ret("ReadySomeErr", "EAFNOSUPPORT"), Panic}]_vars

\* C17 witness: the stream has yielded a second item after a first one
C17_Witness ==
    /\ op = "Incoming::poll_next"
    /\ ret.t \in {"ReadySomeOk", "ReadySomeErr"}
    /\ Len(reqs) >= 2
    /\ \A i \in 1..2 : reqs[i].kind = "Accept" /\ reqs[i].st = "done" /\ reqs[i].tok = NoTok
    /\ cur = 0

\* C18: Protocol violation is fatal: when the accept finished successfully
\* and the address in the scratch buffer decodes to a family other than
\* Inet, the accept poll panics, and the scratch buffer has been released;
\* no accept poll panics with the scratch buffer still in addr.
C18_ProtocolViolationFatal ==
    [][op' \in AcceptPolls
        => /\ (/\ active = "Accept" /\ cur # 0
               /\ reqs[cur].st = "done" /\ reqs[cur].res = "Ok"
               /\ heap[addr].st = "live" /\ heap[addr].fam = "unix")
                => /\ ret' = Panic
                   /\ life' = "panicked"
                   /\ addr' = 0
                   /\ heap'[addr].st = "freed"
           /\ (ret' = Panic)
                => /\ addr # 0 /\ addr' = 0
                   /\ heap'[addr].frees = heap[addr].frees + 1
                   /\ reqs[cur].res = "Ok"]_vars

\* C18 witness: an accept poll panicked on an address of the unix family
C18_Witness ==
    /\ op \in AcceptPolls
    /\ ret = Panic
    /\ life = "panicked"
    /\ addr = 0
    /\ \E b \in Bufs : heap[b].fam = "unix" /\ heap[b].st = "freed" /\ heap[b].frees = 1

====
